---------------------------- MODULE Spec2Model ----------------------------
(***************************************************************************)
(* A state-machine model of pygame_tools.py: the TrueEvery functor, the    *)
(* Animation frame player, Button / ToggleButton, GameScreen's run loop    *)
(* and MenuScreen.                                                         *)
(*                                                                         *)
(* Each class is modelled as a record holding the attributes its methods   *)
(* read or write; each method is an operator from the object (and its     *)
(* arguments) to the object after the call, its return value and the      *)
(* exception it raised, and an action that applies it.  Python's None is  *)
(* the empty tuple <<>> and a present value v is <<v>>.                    *)
(*                                                                         *)
(* The module holds one specification per class (SpecTE, SpecAnim, ...).   *)
(* A specification drives one object and leaves the others untouched.      *)
(***************************************************************************)
EXTENDS Integers, Sequences, FiniteSets

VARIABLES
    te,           \* the TrueEvery instance
    te_op,        \* history: the last operation invoked on it
    te_ret,       \* history: what that operation returned
    te_n,         \* history: __call__ invocations since construction / last reset
    te_pristine,  \* history: no reset has happened since construction
    te_trues,     \* history: True returns since construction (saturates at 2)
    te_epoch,     \* history: True returns since construction / last reset (saturates at 2)
    fresh,        \* a second instance, constructed afresh at each reset(), called in lockstep
    fresh_ret,    \* what the last call on that instance returned
    an,           \* the Animation object: None until a constructor call succeeds
    an_op,        \* history: the last operation invoked on it
    an_err,       \* history: the exception that operation raised ("none": it returned)
    an_surf,      \* history: the image get_surface() returned (0: the last operation returned none)
    an_mismatch,  \* history: the last operation was an __init__ / load given unequal numbers of files and durations
    an_loaded,    \* history: the last load() that touched the object ran to its end
    an_reps,      \* history: the repititions argument of the constructor (None once reset() or load() was called)
    an_updates,   \* history: update() calls since construction (0 once reset() or load() was called)
    an_pristine,  \* history: neither reset() nor load() was called since construction
    an_held,      \* history: update() calls the current frame has been current for
    bt,           \* the Button object
    bt_op,        \* history: the last operation invoked on it
    bt_fill,      \* history: the fill of the last draw(): the attribute chosen and its colour
    bt_acts,      \* history: activations since the last draw() (saturates at 2)
    bt_ran,       \* history: invocations of the action callback (saturates at 2)
    bt_arg,       \* history: the override_highlight argument of the last draw()
    tb,           \* the ToggleButton object (None: none was constructed)
    tb_op,        \* history: the last operation invoked on it
    tb_fill,      \* history: the fill of the last draw(): the attribute chosen and its colour
    tb_arg,       \* history: the override_highlight argument of the last draw()
    tb_first,     \* history: the toggled argument of the constructor
    tb_k,         \* history: activations since construction
    tb_seen,      \* history: toggled as the action callback found it at the last activation (None: not invoked)
    mn,           \* the MenuScreen object
    mn_ev,        \* history: the event of the last handler invoked on it
    mn_pos,       \* history: the mouse position that handler hit-tested (None: none)
    mn_prev,      \* history: button_index when that handler was entered
    mn_acts,      \* history: how often that handler activated each button
    mn_fills,     \* history: the fill attribute the last operation drew each button with
    mn_err,       \* history: the exception that handler raised ("none": it returned)
    gs,           \* the GameScreen object whose run() is followed
    gs_pc,        \* where run() stands: "idle" (not called), "loop", "dispatch", "present", "tick", "exited"
    gs_queue,     \* the events of the list pygame.event.get() returned that the for loop has not reached
    gs_batch,     \* history: that list as it was returned
    gs_log,       \* history: the hooks and steps run() has made since that list was returned
    gs_iters      \* history: how many times run() has entered the body of its loop

teVars == <<te, te_op, te_ret, te_n, te_pristine, te_trues, te_epoch, fresh, fresh_ret>>

anVars == <<an, an_op, an_err, an_surf, an_mismatch, an_loaded, an_reps, an_updates,
           an_pristine, an_held>>

btVars == <<bt, bt_op, bt_fill, bt_acts, bt_ran, bt_arg>>

tbVars == <<tb, tb_op, tb_fill, tb_arg, tb_first, tb_k, tb_seen>>

mnVars == <<mn, mn_ev, mn_pos, mn_prev, mn_acts, mn_fills, mn_err>>

gsVars == <<gs, gs_pc, gs_queue, gs_batch, gs_log, gs_iters>>

vars == <<teVars, anVars, btVars, tbVars, mnVars, gsVars>>

---------------------------------------------------------------------------
(* Bounds of the model *)

\* largest count / initial_count a TrueEvery is constructed with
MaxCount == 3
\* largest start_value / override_start_value
MaxStart == 2
\* most __call__ invocations between two resets
MaxCalls == 10
\* most files matched by a glob path, and most durations in a frame_data list
MaxFrames == 2
\* longest frame duration
MaxDur == 2
\* largest repititions argument
MaxReps == 2
\* most update() calls between two of construction, reset() and load(), and
\* how far below zero frames_until_next is followed
MaxUpdates == 8
\* most buttons in a MenuScreen
MaxButtons == 3
\* most activations of a ToggleButton
MaxToggles == 4
\* longest side of a window whose scaling is followed
MaxSide == 2
\* most events pygame.event.get() returns at once
MaxEvents == 3
\* most iterations of run() that are followed
MaxTicks == 2

---------------------------------------------------------------------------
(* Python values *)

None == <<>>

Some(v) == <<v>>

Sat2(k) == IF k < 2 THEN k + 1 ELSE 2

---------------------------------------------------------------------------
(* class TrueEvery *)

\* __init__: initial_count defaults to count; calls starts at start_value
TrueEvery_init(count, initial_count, once, start_value) ==
    [ count         |-> count,
      initial_count |-> IF initial_count # None THEN initial_count[1] ELSE count,
      once          |-> once,
      calls         |-> start_value,
      start_value   |-> start_value,
      first_call    |-> TRUE ]

\* the guard of __call__: a once-instance that has fired returns False
OnceSpent_AlwaysFalse(t) == FALSE

OnceSpent(t) == ~t.first_call /\ t.once

\* the value calls is reloaded with when it has run down
Reload_AlwaysCount(t) == t.count

Reload(t) == IF t.first_call THEN t.initial_count ELSE t.count

\* the test made on calls after the decrement
RunDown_ExactlyZero(c) == c = 0

RunDown(c) == c <= 0

\* __call__: the object after the call and the value returned
\* (a call that does not fire falls off the end of the method: None)
TrueEvery_call(t) ==
    IF OnceSpent(t)
    THEN [obj |-> t, ret |-> "False"]
    ELSE LET c == t.calls - 1 IN
         IF RunDown(c)
         THEN [obj |-> [t EXCEPT !.calls = Reload(t), !.first_call = FALSE],
               ret |-> "True"]
         ELSE [obj |-> [t EXCEPT !.calls = c], ret |-> "None"]

\* reset(override_start_value = None)
TrueEvery_reset_KeepFirstCall(t, override_start_value) ==
    [t EXCEPT !.calls = IF override_start_value # None
                        THEN override_start_value[1] ELSE t.start_value]

TrueEvery_reset(t, override_start_value) ==
    [t EXCEPT !.calls = IF override_start_value # None
                        THEN override_start_value[1] ELSE t.start_value,
              !.first_call = TRUE]

\* run_or_reset(boolean)
TrueEvery_run_or_reset_NoReset(t, boolean) ==
    IF boolean
    THEN TrueEvery_call(t)
    ELSE [obj |-> t, ret |-> "False"]

TrueEvery_run_or_reset(t, boolean) ==
    IF boolean
    THEN TrueEvery_call(t)
    ELSE [obj |-> TrueEvery_reset(t, None), ret |-> "False"]

\* the arguments TrueEvery is constructed with
Counts == (-1)..MaxCount

InitialCounts == {None} \cup {Some(c) : c \in 0..MaxCount}

StartValues == 0..MaxStart

TEInit ==
    /\ \E count \in Counts, initial_count \in InitialCounts,
          once \in BOOLEAN, start_value \in StartValues :
          te = TrueEvery_init(count, initial_count, once, start_value)
    /\ te_op = "init"
    /\ te_ret = "None"
    /\ te_n = 0
    /\ te_pristine = TRUE
    /\ te_trues = 0
    /\ te_epoch = 0
    /\ fresh = None
    /\ fresh_ret = "None"

\* no TrueEvery in use
TEIdle ==
    /\ te = TrueEvery_init(1, None, FALSE, 0)
    /\ te_op = "init"
    /\ te_ret = "None"
    /\ te_n = 0
    /\ te_pristine = TRUE
    /\ te_trues = 0
    /\ te_epoch = 0
    /\ fresh = None
    /\ fresh_ret = "None"

---------------------------------------------------------------------------
(* class Animation *)

\* The object holds the attributes its methods read: glob_path and frame_data
\* are stored by __init__ and never read again.  A frame is <<image, duration>>,
\* the image being the number of its file in glob's result.  frames is indexed
\* from 1 here, frame_index from 0 as in the source.

RECURSIVE SeqsUpTo(_, _)
\* the sequences over S of length 0..n
SeqsUpTo(S, n) ==
    IF n = 0 THEN {<<>>}
    ELSE LET shorter == SeqsUpTo(S, n - 1) IN
         shorter \cup {Append(q, x) : q \in {r \in shorter : Len(r) = n - 1}, x \in S}

\* the frame_data lists and file counts __init__ and load are called with
FrameDatas == SeqsUpTo(0..MaxDur, MaxFrames)

FileCounts == 0..MaxFrames

Repititions == {None} \cup {Some(r) : r \in 0..MaxReps}

\* load's check of the two lengths
Mismatch_TooManyFilesOnly(nfiles, frame_data) == nfiles > Len(frame_data)

Mismatch(nfiles, frame_data) == nfiles # Len(frame_data)

\* load(glob_path, frame_data) on object a, glob_path matching nfiles files:
\* the object after the call and the exception raised
Animation_load(a, nfiles, frame_data) ==
    IF Mismatch(nfiles, frame_data)
    THEN [obj |-> a, err |-> "ValueError"]
    ELSE LET frames == [i \in 1..nfiles |-> <<i, frame_data[i]>>]
             b == [a EXCEPT !.frames = frames,
                            !.frame_count = Len(frames),
                            !.frame_index = 0]
         IN  IF Len(frames) = 0
             THEN [obj |-> b, err |-> "IndexError"]
             ELSE [obj |-> [b EXCEPT !.frames_until_next = frames[1][2]],
                   err |-> "none"]

\* the value __init__ gives finished
FinishedAtStart_Falsy(repititions) == repititions = None \/ repititions = Some(0)

FinishedAtStart(repititions) == repititions = Some(0)

\* __init__: the object constructed (None when load raised) and the exception
Animation_init(nfiles, frame_data, repititions) ==
    LET a == [ repititions       |-> repititions,
               finished          |-> FinishedAtStart(repititions),
               frames            |-> <<>>,
               frame_count       |-> 0,
               frame_index       |-> 0,
               frames_until_next |-> 0 ]
        r == Animation_load(a, nfiles, frame_data)
    IN  IF r.err = "none"
        THEN [obj |-> Some(r.obj), err |-> "none"]
        ELSE [obj |-> None, err |-> r.err]

\* update does nothing on a finished animation
Frozen_Never(a) == FALSE

Frozen(a) == a.finished

\* the index update advances to
NextIndex_NoWrap(a) == a.frame_index + 1

NextIndex(a) == (a.frame_index + 1) % a.frame_count

\* whether the advance to frame i ends a repetition that is counted
EndsRepetition_EveryFrame(a, i) == a.repititions # None

EndsRepetition(a, i) == i = 0 /\ a.repititions # None

\* update(): the object after the call and the exception raised
Animation_update(a) ==
    IF Frozen(a)
    THEN [obj |-> a, err |-> "none"]
    ELSE LET b == [a EXCEPT !.frames_until_next = a.frames_until_next - 1] IN
         IF b.frames_until_next # 0
         THEN [obj |-> b, err |-> "none"]
         ELSE IF b.frame_count = 0
         THEN [obj |-> b, err |-> "ZeroDivisionError"]
         ELSE LET i == NextIndex(b)
                  c == [b EXCEPT !.frame_index = i]
              IN  IF i + 1 \notin DOMAIN c.frames
                  THEN [obj |-> c, err |-> "IndexError"]
                  ELSE LET d == [c EXCEPT !.frames_until_next =
                                              c.frames_until_next + c.frames[i + 1][2]]
                       IN  IF EndsRepetition(d, i)
                           THEN LET k == d.repititions[1] - 1 IN
                                [obj |-> [d EXCEPT !.repititions = Some(k),
                                                   !.finished = (k = 0) \/ d.finished],
                                 err |-> "none"]
                           ELSE [obj |-> d, err |-> "none"]

\* get_surface(): the image returned (0: none) and the exception raised
Animation_get_surface(a) ==
    IF a.frame_index + 1 \in DOMAIN a.frames
    THEN [surf |-> a.frames[a.frame_index + 1][1], err |-> "none"]
    ELSE [surf |-> 0, err |-> "IndexError"]

\* reset(): the object after the call and the exception raised
Animation_reset_Revive(a) ==
    LET b == [a EXCEPT !.frame_index = 0, !.finished = FALSE] IN
    IF Len(b.frames) = 0
    THEN [obj |-> b, err |-> "IndexError"]
    ELSE [obj |-> [b EXCEPT !.frames_until_next = b.frames[1][2]], err |-> "none"]

Animation_reset(a) ==
    LET b == [a EXCEPT !.frame_index = 0] IN
    IF Len(b.frames) = 0
    THEN [obj |-> b, err |-> "IndexError"]
    ELSE [obj |-> [b EXCEPT !.frames_until_next = b.frames[1][2]], err |-> "none"]

\* before the constructor is called
AnInit ==
    /\ an = None
    /\ an_op = "none"
    /\ an_err = "none"
    /\ an_surf = 0
    /\ an_mismatch = FALSE
    /\ an_loaded = FALSE
    /\ an_reps = None
    /\ an_updates = 0
    /\ an_pristine = TRUE
    /\ an_held = 0

\* no Animation in use
AnIdle == AnInit

---------------------------------------------------------------------------
(* class Button *)

\* The object holds what decides the fill and the flags: text, font, border
\* and line width only reach pygame's drawing calls.  A colour is a name.

Point(x, y) == <<x, y>>

\* Rect(left, top, width, height)
Rect(x, y, w, h) == [x |-> x, y |-> y, w |-> w, h |-> h]

\* pygame's Rect.collidepoint: right and bottom edges are outside
collidepoint(rect, p) ==
    /\ rect.x <= p[1] /\ p[1] < rect.x + rect.w
    /\ rect.y <= p[2] /\ p[2] < rect.y + rect.h

Palette == {"white", "grey", "dark"}

\* __init__: clicked and highlight start False; a missing highlight colour is
\* the rect colour.  action: whether a callback was given.
Button_init(action, rect, rect_color, highlight_color, clicked_color) ==
    [ action          |-> action,
      rect            |-> rect,
      rect_color      |-> rect_color,
      highlight_color |-> IF highlight_color # None THEN highlight_color[1]
                          ELSE rect_color,
      clicked_color   |-> clicked_color,
      clicked         |-> FALSE,
      highlight       |-> FALSE ]

\* the test draw makes to choose the highlight colour
Highlit_FlagWins(b, override_highlight) ==
    b.highlight \/ override_highlight = Some(TRUE)

Highlit(b, override_highlight) ==
    \/ override_highlight = None /\ b.highlight
    \/ override_highlight = Some(TRUE)

\* the colour attribute draw fills the rect with
FillAttr(b, override_highlight) ==
    IF b.clicked THEN "clicked_color"
    ELSE IF Highlit(b, override_highlight) THEN "highlight_color"
         ELSE "rect_color"

\* the clicked flag after draw has read it
Cleared_Kept(b) == b

Cleared(b) == [b EXCEPT !.clicked = FALSE]

\* draw(screen, override_highlight): the object after the call and the fill
Button_draw(b, override_highlight) ==
    LET attr == FillAttr(b, override_highlight) IN
    [ obj  |-> Cleared(b),
      fill |-> [attr |-> attr, color |-> b[attr]] ]

\* __call__: the object after the call and whether the action was invoked
Button_call(b) ==
    [ obj |-> [b EXCEPT !.clicked = TRUE], ran |-> b.action ]

NoFill == [attr |-> "none", color |-> "none"]

\* a Button was constructed
BtInit ==
    /\ \E action \in BOOLEAN, rect_color \in Palette, clicked_color \in Palette,
          highlight_color \in {None} \cup {Some(c) : c \in Palette} :
          bt = Button_init(action, Rect(0, 0, 1, 1), rect_color, highlight_color,
                           clicked_color)
    /\ bt_op = "init"
    /\ bt_fill = NoFill
    /\ bt_acts = 0
    /\ bt_ran = 0
    /\ bt_arg = None

\* no Button in use
BtIdle ==
    /\ bt = Button_init(FALSE, Rect(0, 0, 1, 1), "white", Some("grey"), "dark")
    /\ bt_op = "init"
    /\ bt_fill = NoFill
    /\ bt_acts = 0
    /\ bt_ran = 0
    /\ bt_arg = None

---------------------------------------------------------------------------
(* class ToggleButton *)

\* __init__: a missing off_rect_color is the on_rect_color; highlight starts
\* False, toggled as given.  Texts, fonts and borders do not reach the fill.
ToggleButton_init(action, on_rect_color, off_rect_color, on_highlight_color, off_highlight_color, toggled) ==
    [ action              |-> action,
      on_rect_color       |-> on_rect_color,
      off_rect_color      |-> IF off_rect_color # None THEN off_rect_color[1]
                              ELSE on_rect_color,
      on_highlight_color  |-> on_highlight_color,
      off_highlight_color |-> off_highlight_color,
      highlight           |-> FALSE,
      toggled             |-> toggled ]

\* the colour attribute draw fills the rect with
ToggleFillAttr(b, override_highlight) ==
    IF b.toggled
    THEN IF Highlit(b, override_highlight) THEN "on_highlight_color"
         ELSE "on_rect_color"
    ELSE IF Highlit(b, override_highlight) THEN "off_highlight_color"
         ELSE "off_rect_color"

\* draw(screen, override_highlight): the object after the call and the fill
ToggleButton_draw(b, override_highlight) ==
    LET attr == ToggleFillAttr(b, override_highlight) IN
    [ obj  |-> b,
      fill |-> [attr |-> attr, color |-> b[attr]] ]

\* __call__: the object after the call, whether the action was invoked and
\* the value of toggled it was invoked under
ToggleButton_call_FlipFirst(b) ==
    [ obj  |-> [b EXCEPT !.toggled = ~b.toggled],
      ran  |-> b.action,
      seen |-> ~b.toggled ]

ToggleButton_call(b) ==
    [ obj  |-> [b EXCEPT !.toggled = ~b.toggled],
      ran  |-> b.action,
      seen |-> b.toggled ]

\* a ToggleButton was constructed
TbInit ==
    /\ \E action \in BOOLEAN, toggled \in BOOLEAN, on_rect_color \in Palette,
          off_rect_color \in {None} \cup {Some(c) : c \in Palette} :
          tb = Some(ToggleButton_init(action, on_rect_color, off_rect_color,
                                      "grey", "dark", toggled))
    /\ tb_op = "init"
    /\ tb_fill = NoFill
    /\ tb_arg = None
    /\ tb_first = tb[1].toggled
    /\ tb_k = 0
    /\ tb_seen = None

\* no ToggleButton in use
TbIdle ==
    /\ tb = None
    /\ tb_op = "none"
    /\ tb_fill = NoFill
    /\ tb_arg = None
    /\ tb_first = FALSE
    /\ tb_k = 0
    /\ tb_seen = None

---------------------------------------------------------------------------
(* class GameScreen, class MenuScreen *)

\* GameScreen.__init__: the scaling attributes (window_size: None or a Point)
GameScreen_init(real_window_size, window_size) ==
    LET window_scaled == window_size # None /\ window_size[1] # real_window_size
        size == IF window_scaled THEN window_size[1] ELSE real_window_size
    IN  [ window_scaled    |-> window_scaled,
          real_window_size |-> real_window_size,
          window_size      |-> size,
          window_scale     |-> Point(real_window_size[1] \div size[1],
                                     real_window_size[2] \div size[2]),
          running          |-> FALSE,
          game_ticks       |-> 0 ]

\* get_scaled_mouse_pos() with the pointer at pos: the Point returned (None
\* when the division raised) and the exception
GameScreen_get_scaled_mouse_pos(g, pos) ==
    IF g.window_scale[1] = 0 \/ g.window_scale[2] = 0
    THEN [pos |-> None, err |-> "ZeroDivisionError"]
    ELSE [pos |-> Some(Point(pos[1] \div g.window_scale[1],
                             pos[2] \div g.window_scale[2])),
          err |-> "none"]

\* MenuScreen.__init__, and the subclass's constructor filling self.buttons
MenuScreen_init(real_window_size, window_size, buttons) ==
    [ screen       |-> GameScreen_init(real_window_size, window_size),
      buttons      |-> buttons,
      button_index |-> 0 ]

\* Python's list indexing: the 1-based place of item i, 0 when i is out of range
PyIndex(n, i) ==
    IF 0 <= i /\ i < n THEN i + 1
    ELSE IF -n <= i /\ i < 0 THEN n + i + 1
    ELSE 0

NoActs(m) == [i \in 1..Len(m.buttons) |-> 0]

\* button_index after the increment of K_DOWN / K_RIGHT
WrapUp_PastEnd(i, n) == IF i > n THEN i % n ELSE i

WrapUp(i, n) == IF i >= n THEN i % n ELSE i

\* button_index after the decrement of K_UP / K_LEFT
WrapDown_ToFirst(i, n) == IF i < 0 THEN 0 ELSE i

WrapDown(i, n) == IF i < 0 THEN n - 1 ELSE i

\* key_down(event): the object after the call, the activations and the exception
MenuScreen_key_down(m, key) ==
    LET n == Len(m.buttons) IN
    IF key \in {"K_UP", "K_RIGHT", "K_DOWN", "K_LEFT"}
    THEN IF key \in {"K_DOWN", "K_RIGHT"}
         THEN IF n = 0
              THEN [obj |-> [m EXCEPT !.button_index = m.button_index + 1],
                    acts |-> NoActs(m), err |-> "ZeroDivisionError"]
              ELSE [obj |-> [m EXCEPT !.button_index = WrapUp(m.button_index + 1, n)],
                    acts |-> NoActs(m), err |-> "none"]
         ELSE [obj |-> [m EXCEPT !.button_index = WrapDown(m.button_index - 1, n)],
               acts |-> NoActs(m), err |-> "none"]
    ELSE IF key \in {"K_RETURN", "K_SPACE"}
    THEN LET j == PyIndex(n, m.button_index) IN
         IF j = 0
         THEN [obj |-> m, acts |-> NoActs(m), err |-> "IndexError"]
         ELSE [obj |-> [m EXCEPT !.buttons[j] = Button_call(m.buttons[j]).obj],
               acts |-> [NoActs(m) EXCEPT ![j] = 1], err |-> "none"]
    ELSE [obj |-> m, acts |-> NoActs(m), err |-> "none"]

RECURSIVE ClickLoop(_, _, _)
\* the loop of mouse_button_down from button i (1-based) on: every button
\* whose rect holds mouse_pos becomes the active one and is activated
ClickLoop(st, mouse_pos, i) ==
    IF i > Len(st.obj.buttons) THEN st
    ELSE LET button == st.obj.buttons[i] IN
         IF collidepoint(button.rect, mouse_pos)
         THEN ClickLoop([ obj  |-> [st.obj EXCEPT !.button_index = i - 1,
                                                  !.buttons[i] = Button_call(button).obj],
                          acts |-> [st.acts EXCEPT ![i] = @ + 1] ],
                        mouse_pos, i + 1)
         ELSE ClickLoop(st, mouse_pos, i + 1)

\* mouse_button_down(event) with the pointer at pos: the object after the
\* call, the position hit-tested, the activations and the exception
MenuScreen_mouse_button_down(m, button, pos) ==
    IF button # 1
    THEN [obj |-> m, pos |-> None, acts |-> NoActs(m), err |-> "none"]
    ELSE LET p == IF m.screen.window_scaled
                  THEN GameScreen_get_scaled_mouse_pos(m.screen, pos)
                  ELSE [pos |-> Some(pos), err |-> "none"]
         IN  IF p.err # "none"
             THEN [obj |-> m, pos |-> None, acts |-> NoActs(m), err |-> p.err]
             ELSE LET st == ClickLoop([obj |-> m, acts |-> NoActs(m)], p.pos[1], 1) IN
                  [obj |-> st.obj, pos |-> p.pos, acts |-> st.acts, err |-> "none"]

\* draw_buttons(): the object after the call and the fill attribute of each button
MenuScreen_draw_buttons(m) ==
    LET drawn == [i \in 1..Len(m.buttons) |->
                     Button_draw(m.buttons[i],
                                 IF i - 1 = m.button_index THEN Some(TRUE) ELSE None)]
    IN  [ obj   |-> [m EXCEPT !.buttons = [i \in 1..Len(m.buttons) |-> drawn[i].obj]],
          fills |-> [i \in 1..Len(m.buttons) |-> drawn[i].fill.attr] ]

\* the windows a menu is constructed with: real size 2 x 2, drawn unscaled,
\* or scaled by 2 in both directions or in x alone
MenuWindows ==
    { [real |-> Point(2, 2), logical |-> None],
      [real |-> Point(2, 2), logical |-> Some(Point(1, 1))],
      [real |-> Point(2, 2), logical |-> Some(Point(1, 2))] }

\* the rects of a menu's buttons: the left column and the top row of a
\* 2 x 2 area; they share (0, 0), and neither holds (1, 1)
MenuRects == {Rect(0, 0, 1, 2), Rect(0, 0, 2, 1)}

MenuButtons ==
    {[i \in 1..Len(q) |-> Button_init(TRUE, q[i], "white", Some("grey"), "dark")] :
        q \in SeqsUpTo(MenuRects, MaxButtons) \ {<<>>}}

\* where the pointer can be in the real window
Pointers(m) ==
    {Point(x, y) : x \in 0..(m.screen.real_window_size[1] - 1),
                   y \in 0..(m.screen.real_window_size[2] - 1)}

Keys == {"K_UP", "K_DOWN", "K_LEFT", "K_RIGHT", "K_RETURN", "K_SPACE", "K_a"}

MouseButtons == {1, 3}

Event(kind, key, button, pos) ==
    [kind |-> kind, key |-> key, button |-> button, pos |-> pos]

NoEvent == Event("none", "none", 0, None)

\* a MenuScreen with 1..MaxButtons buttons was constructed
MnInit ==
    /\ \E w \in MenuWindows, buttons \in MenuButtons :
          mn = MenuScreen_init(w.real, w.logical, buttons)
    /\ mn_ev = NoEvent
    /\ mn_pos = None
    /\ mn_prev = 0
    /\ mn_acts = NoActs(mn)
    /\ mn_fills = <<>>
    /\ mn_err = "none"

\* the windows whose scaling is followed: every real size and every logical
\* size (None: not given) with sides in 1..MaxSide, the logical size smaller
\* than, equal to or larger than the real one
ScaleWindows ==
    LET Sizes == {Point(x, y) : x \in 1..MaxSide, y \in 1..MaxSide} IN
    {[real |-> r, logical |-> l] : r \in Sizes, l \in {None} \cup {Some(z) : z \in Sizes}}

\* a MenuScreen with one button was constructed on one of these windows
MnScaleInit ==
    /\ \E w \in ScaleWindows, buttons \in {q \in MenuButtons : Len(q) = 1} :
          mn = MenuScreen_init(w.real, w.logical, buttons)
    /\ mn_ev = NoEvent
    /\ mn_pos = None
    /\ mn_prev = 0
    /\ mn_acts = NoActs(mn)
    /\ mn_fills = <<>>
    /\ mn_err = "none"

\* no MenuScreen in use
MnIdle ==
    /\ mn = MenuScreen_init(Point(2, 2), None,
                            <<Button_init(TRUE, Rect(0, 0, 1, 2), "white", Some("grey"), "dark")>>)
    /\ mn_ev = NoEvent
    /\ mn_pos = None
    /\ mn_prev = 0
    /\ mn_acts = <<0>>
    /\ mn_fills = <<>>
    /\ mn_err = "none"

\* the event types pygame delivers: the five handle_event tests for, and one
\* that stands for all others
EventTypes == {"QUIT", "KEYDOWN", "KEYUP", "MOUSEBUTTONDOWN", "MOUSEBUTTONUP", "MOUSEMOTION"}

\* the lists pygame.event.get() returns
Batches == SeqsUpTo(EventTypes, MaxEvents)

\* handle_event(event): what it calls for an event of this type
\* ("none": no branch matches)
HookOf_QuitIgnored(type) ==
    CASE type = "QUIT"            -> "none"
      [] type = "KEYDOWN"         -> "key_down"
      [] type = "KEYUP"           -> "key_up"
      [] type = "MOUSEBUTTONDOWN" -> "mouse_button_down"
      [] type = "MOUSEBUTTONUP"   -> "mouse_button_up"
      [] OTHER                    -> "none"

HookOf(type) ==
    CASE type = "QUIT"            -> "sys.exit"
      [] type = "KEYDOWN"         -> "key_down"
      [] type = "KEYUP"           -> "key_up"
      [] type = "MOUSEBUTTONDOWN" -> "mouse_button_down"
      [] type = "MOUSEBUTTONUP"   -> "mouse_button_up"
      [] OTHER                    -> "none"

\* tick(): game_ticks is counted up.  Its return to 0 above
\* 999999999999999999999 lies far outside the MaxTicks iterations followed.
GameScreen_tick(g) == [g EXCEPT !.game_ticks = g.game_ticks + 1]

\* what run() does between update() and tick(): the logical surface is
\* scaled onto the real one if the window is scaled, then the display is updated
Presentation(g) == IF g.window_scaled THEN <<"scale", "present">> ELSE <<"present">>

\* a GameScreen was constructed; run() has not been called
GsInit ==
    /\ \E w \in MenuWindows : gs = GameScreen_init(w.real, w.logical)
    /\ gs_pc = "idle"
    /\ gs_queue = <<>>
    /\ gs_batch = <<>>
    /\ gs_log = <<>>
    /\ gs_iters = 0

\* no GameScreen is run
GsIdle ==
    /\ gs = GameScreen_init(Point(2, 2), None)
    /\ gs_pc = "idle"
    /\ gs_queue = <<>>
    /\ gs_batch = <<>>
    /\ gs_log = <<>>
    /\ gs_iters = 0

---------------------------------------------------------------------------
(* The frame of each class's steps: the other objects are left alone *)

notTE == <<anVars, btVars, tbVars, mnVars, gsVars>>

notAn == <<teVars, btVars, tbVars, mnVars, gsVars>>

notBt == <<teVars, anVars, tbVars, mnVars, gsVars>>

notTb == <<teVars, anVars, btVars, mnVars, gsVars>>

notMn == <<teVars, anVars, btVars, tbVars, gsVars>>

notGs == <<teVars, anVars, btVars, tbVars, mnVars>>

---------------------------------------------------------------------------
(* Operations on the TrueEvery instance *)

\* the effect of a __call__ on the history variables and on the lockstep instance
CallEffect(r, op) ==
    /\ te' = r.obj
    /\ te_op' = op
    /\ te_ret' = r.ret
    /\ te_n' = te_n + 1
    /\ te_trues' = IF r.ret = "True" THEN Sat2(te_trues) ELSE te_trues
    /\ te_epoch' = IF r.ret = "True" THEN Sat2(te_epoch) ELSE te_epoch
    /\ IF fresh # None
       THEN LET f == TrueEvery_call(fresh[1]) IN
            fresh' = Some(f.obj) /\ fresh_ret' = f.ret
       ELSE UNCHANGED <<fresh, fresh_ret>>
    /\ UNCHANGED te_pristine

\* the effect of a reset; a reset() without argument starts a fresh lockstep instance
ResetEffect(t, op, ret, plain) ==
    /\ te' = t
    /\ te_op' = op
    /\ te_ret' = ret
    /\ te_n' = 0
    /\ te_pristine' = FALSE
    /\ te_epoch' = 0
    /\ fresh' = IF plain
                THEN Some(TrueEvery_init(te.count, Some(te.initial_count),
                                         te.once, te.start_value))
                ELSE None
    /\ fresh_ret' = "None"
    /\ UNCHANGED te_trues

Call ==
    /\ te_n < MaxCalls
    /\ CallEffect(TrueEvery_call(te), "call")
    /\ UNCHANGED notTE

Reset ==
    /\ \E override_start_value \in {None} \cup {Some(s) : s \in StartValues} :
          ResetEffect(TrueEvery_reset(te, override_start_value), "reset", "None",
                      override_start_value = None)
    /\ UNCHANGED notTE

RunOrReset ==
    /\ \E boolean \in BOOLEAN :
          LET r == TrueEvery_run_or_reset(te, boolean) IN
          IF boolean
          THEN te_n < MaxCalls /\ CallEffect(r, "run")
          ELSE ResetEffect(r.obj, "run_reset", r.ret, TRUE)
    /\ UNCHANGED notTE

TENext == Call \/ Reset \/ RunOrReset

\* a TrueEvery is constructed; nothing else is in use
InitTE == TEInit /\ AnIdle /\ BtIdle /\ TbIdle /\ MnIdle /\ GsIdle

SpecTE == InitTE /\ [][TENext]_vars

---------------------------------------------------------------------------
(* Operations on the Animation object *)

\* a = Animation(glob_path, frame_data, repititions)
AnConstruct ==
    /\ an = None
    /\ \E nfiles \in FileCounts, frame_data \in FrameDatas, repititions \in Repititions :
          LET r == Animation_init(nfiles, frame_data, repititions) IN
          /\ an' = r.obj
          /\ an_err' = r.err
          /\ an_mismatch' = (nfiles # Len(frame_data))
          /\ an_loaded' = (r.err = "none")
          /\ an_reps' = repititions
    /\ an_op' = "init"
    /\ an_surf' = 0
    /\ an_updates' = 0
    /\ an_pristine' = TRUE
    /\ an_held' = 0
    /\ UNCHANGED notAn

\* whether an update() made a frame current: the frame shown changed, or the
\* countdown was loaded anew
Advanced(a, b) ==
    \/ b.frame_index # a.frame_index
    \/ b.frames_until_next >= a.frames_until_next

\* a.update()
AnUpdate ==
    /\ an # None
    /\ an_updates < MaxUpdates
    /\ an[1].frames_until_next > -MaxUpdates
    /\ LET r == Animation_update(an[1]) IN
       /\ an' = Some(r.obj)
       /\ an_err' = r.err
       /\ an_held' = IF an[1].finished THEN an_held
                     ELSE IF Advanced(an[1], r.obj) THEN 0
                     ELSE an_held + 1
    /\ an_op' = "update"
    /\ an_surf' = 0
    /\ an_mismatch' = FALSE
    /\ an_updates' = IF an_pristine THEN an_updates + 1 ELSE 0
    /\ UNCHANGED <<an_loaded, an_reps, an_pristine>>
    /\ UNCHANGED notAn

\* a.get_surface()
AnGetSurface ==
    /\ an # None
    /\ LET r == Animation_get_surface(an[1]) IN
       /\ an_surf' = r.surf
       /\ an_err' = r.err
    /\ an_op' = "get_surface"
    /\ an_mismatch' = FALSE
    /\ UNCHANGED <<an, an_loaded, an_reps, an_updates, an_pristine, an_held>>
    /\ UNCHANGED notAn

\* a.reset()
AnReset ==
    /\ an # None
    /\ LET r == Animation_reset(an[1]) IN
       /\ an' = Some(r.obj)
       /\ an_err' = r.err
    /\ an_op' = "reset"
    /\ an_surf' = 0
    /\ an_mismatch' = FALSE
    /\ an_reps' = None
    /\ an_updates' = 0
    /\ an_pristine' = FALSE
    /\ an_held' = 0
    /\ UNCHANGED an_loaded
    /\ UNCHANGED notAn

\* a.load(glob_path, frame_data) on the constructed object
AnLoad ==
    /\ an # None
    /\ \E nfiles \in FileCounts, frame_data \in FrameDatas :
          LET r == Animation_load(an[1], nfiles, frame_data) IN
          /\ an' = Some(r.obj)
          /\ an_err' = r.err
          /\ an_mismatch' = (nfiles # Len(frame_data))
          /\ an_loaded' = IF r.err = "ValueError" THEN an_loaded ELSE r.err = "none"
          /\ an_held' = IF r.err = "ValueError" THEN an_held ELSE 0
    /\ an_op' = "load"
    /\ an_surf' = 0
    /\ an_reps' = None
    /\ an_updates' = 0
    /\ an_pristine' = FALSE
    /\ UNCHANGED notAn

AnNext == AnConstruct \/ AnUpdate \/ AnGetSurface \/ AnReset \/ AnLoad

\* an Animation is about to be constructed; nothing else is in use
InitAnim == AnInit /\ TEIdle /\ BtIdle /\ TbIdle /\ MnIdle /\ GsIdle

SpecAnim == InitAnim /\ [][AnNext]_vars

---------------------------------------------------------------------------
(* Operations on the Button object *)

\* b()
BtCall ==
    /\ LET r == Button_call(bt) IN
       /\ bt' = r.obj
       /\ bt_ran' = IF r.ran THEN Sat2(bt_ran) ELSE bt_ran
    /\ bt_op' = "call"
    /\ bt_acts' = Sat2(bt_acts)
    /\ UNCHANGED <<bt_fill, bt_arg>>
    /\ UNCHANGED notBt

\* b.draw(screen, override_highlight)
BtDraw ==
    /\ \E override_highlight \in {None, Some(TRUE), Some(FALSE)} :
          LET r == Button_draw(bt, override_highlight) IN
          /\ bt' = r.obj
          /\ bt_fill' = r.fill
          /\ bt_arg' = override_highlight
    /\ bt_op' = "draw"
    /\ bt_acts' = 0
    /\ UNCHANGED bt_ran
    /\ UNCHANGED notBt

\* b.highlight = value, by the code that owns the button
BtSetHighlight ==
    /\ \E value \in BOOLEAN : bt' = [bt EXCEPT !.highlight = value]
    /\ bt_op' = "highlight"
    /\ UNCHANGED <<bt_fill, bt_acts, bt_ran, bt_arg>>
    /\ UNCHANGED notBt

BtNext == BtCall \/ BtDraw \/ BtSetHighlight

\* a Button is constructed; nothing else is in use
InitButton == BtInit /\ TEIdle /\ AnIdle /\ TbIdle /\ MnIdle /\ GsIdle

SpecButton == InitButton /\ [][BtNext]_vars

---------------------------------------------------------------------------
(* Operations on the ToggleButton object *)

\* t()
TbCall ==
    /\ tb # None
    /\ tb_k < MaxToggles
    /\ LET r == ToggleButton_call(tb[1]) IN
       /\ tb' = Some(r.obj)
       /\ tb_seen' = IF r.ran THEN Some(r.seen) ELSE None
    /\ tb_op' = "call"
    /\ tb_k' = tb_k + 1
    /\ UNCHANGED <<tb_fill, tb_arg, tb_first>>
    /\ UNCHANGED notTb

\* t.draw(screen, override_highlight)
TbDraw ==
    /\ tb # None
    /\ \E override_highlight \in {None, Some(TRUE), Some(FALSE)} :
          LET r == ToggleButton_draw(tb[1], override_highlight) IN
          /\ tb' = Some(r.obj)
          /\ tb_fill' = r.fill
          /\ tb_arg' = override_highlight
    /\ tb_op' = "draw"
    /\ UNCHANGED <<tb_first, tb_k, tb_seen>>
    /\ UNCHANGED notTb

\* t.highlight = value, by the code that owns the button
TbSetHighlight ==
    /\ tb # None
    /\ \E value \in BOOLEAN : tb' = Some([tb[1] EXCEPT !.highlight = value])
    /\ tb_op' = "highlight"
    /\ UNCHANGED <<tb_fill, tb_arg, tb_first, tb_k, tb_seen>>
    /\ UNCHANGED notTb

TbNext == TbCall \/ TbDraw \/ TbSetHighlight

\* a ToggleButton is constructed; nothing else is in use
InitToggle == TbInit /\ TEIdle /\ AnIdle /\ BtIdle /\ MnIdle /\ GsIdle

SpecToggle == InitToggle /\ [][TbNext]_vars

\* a Button or a ToggleButton is constructed and drawn
InitWidget ==
    /\ (BtInit /\ TbIdle) \/ (BtIdle /\ TbInit)
    /\ TEIdle /\ AnIdle /\ MnIdle /\ GsIdle

WidgetNext == (tb = None /\ BtNext) \/ TbNext

SpecWidget == InitWidget /\ [][WidgetNext]_vars

---------------------------------------------------------------------------
(* Handlers of the MenuScreen object *)

\* key_down(event)
MnKeyDown ==
    /\ \E key \in Keys :
          LET r == MenuScreen_key_down(mn, key) IN
          /\ mn' = r.obj
          /\ mn_ev' = Event("KEYDOWN", key, 0, None)
          /\ mn_acts' = r.acts
          /\ mn_err' = r.err
    /\ mn_pos' = None
    /\ mn_prev' = mn.button_index
    /\ mn_fills' = <<>>
    /\ UNCHANGED notMn

\* mouse_button_down(event), the pointer being somewhere in the real window
MnMouseButtonDown ==
    /\ \E button \in MouseButtons, pos \in Pointers(mn) :
          LET r == MenuScreen_mouse_button_down(mn, button, pos) IN
          /\ mn' = r.obj
          /\ mn_ev' = Event("MOUSEBUTTONDOWN", "none", button, Some(pos))
          /\ mn_pos' = r.pos
          /\ mn_acts' = r.acts
          /\ mn_err' = r.err
    /\ mn_prev' = mn.button_index
    /\ mn_fills' = <<>>
    /\ UNCHANGED notMn

\* update(): draw_buttons()
MnUpdate ==
    /\ LET r == MenuScreen_draw_buttons(mn) IN
       /\ mn' = r.obj
       /\ mn_fills' = r.fills
    /\ mn_ev' = Event("update", "none", 0, None)
    /\ mn_pos' = None
    /\ mn_prev' = mn.button_index
    /\ mn_acts' = NoActs(mn)
    /\ mn_err' = "none"
    /\ UNCHANGED notMn

MnNext == MnKeyDown \/ MnMouseButtonDown \/ MnUpdate

\* a MenuScreen is constructed; nothing else is in use
InitMenu == MnInit /\ TEIdle /\ AnIdle /\ BtIdle /\ TbIdle /\ GsIdle

SpecMenu == InitMenu /\ [][MnNext]_vars

\* a one-button MenuScreen is constructed on a window of any small size
InitScale == MnScaleInit /\ TEIdle /\ AnIdle /\ BtIdle /\ TbIdle /\ GsIdle

SpecScale == InitScale /\ [][MnNext]_vars

---------------------------------------------------------------------------
(* The steps of GameScreen.run() *)

\* run() is entered: self.running = True
GsRun ==
    /\ gs_pc = "idle"
    /\ gs' = [gs EXCEPT !.running = TRUE]
    /\ gs_pc' = "loop"
    /\ UNCHANGED <<gs_queue, gs_batch, gs_log, gs_iters>>
    /\ UNCHANGED notGs

\* while self.running: the body is entered and pygame.event.get() returns
\* the events that are pending
GsGetEvents ==
    /\ gs_pc = "loop"
    /\ gs.running
    /\ gs_iters < MaxTicks
    /\ \E events \in Batches :
          /\ gs_queue' = events
          /\ gs_batch' = events
    /\ gs_log' = <<>>
    /\ gs_iters' = gs_iters + 1
    /\ gs_pc' = "dispatch"
    /\ UNCHANGED gs
    /\ UNCHANGED notGs

\* the for loop takes the next event: handle_event(event).  sys.exit() ends
\* the process; the hooks of GameScreen are empty.
GsHandleEvent ==
    /\ gs_pc = "dispatch"
    /\ gs_queue # <<>>
    /\ LET hook == HookOf(Head(gs_queue)) IN
       /\ gs_log' = IF hook = "none" THEN gs_log ELSE Append(gs_log, hook)
       /\ gs_pc' = IF hook = "sys.exit" THEN "exited" ELSE "dispatch"
    /\ gs_queue' = Tail(gs_queue)
    /\ UNCHANGED <<gs, gs_batch, gs_iters>>
    /\ UNCHANGED notGs

\* the for loop is through: self.update()
GsUpdate ==
    /\ gs_pc = "dispatch"
    /\ gs_queue = <<>>
    /\ gs_log' = Append(gs_log, "update")
    /\ gs_pc' = "present"
    /\ UNCHANGED <<gs, gs_queue, gs_batch, gs_iters>>
    /\ UNCHANGED notGs

\* the blit of the scaled surface, if any, and pygame.display.update()
GsPresent ==
    /\ gs_pc = "present"
    /\ gs_log' = gs_log \o Presentation(gs)
    /\ gs_pc' = "tick"
    /\ UNCHANGED <<gs, gs_queue, gs_batch, gs_iters>>
    /\ UNCHANGED notGs

\* self.tick(), and back to the test of the while loop
GsTick ==
    /\ gs_pc = "tick"
    /\ gs' = GameScreen_tick(gs)
    /\ gs_log' = Append(gs_log, "tick")
    /\ gs_pc' = "loop"
    /\ UNCHANGED <<gs_queue, gs_batch, gs_iters>>
    /\ UNCHANGED notGs

GsNext == GsRun \/ GsGetEvents \/ GsHandleEvent \/ GsUpdate \/ GsPresent \/ GsTick

\* a GameScreen is constructed and run; nothing else is in use
InitRun == GsInit /\ TEIdle /\ AnIdle /\ BtIdle /\ TbIdle /\ MnIdle

SpecRun == InitRun /\ [][GsNext]_vars

---------------------------------------------------------------------------
(* Claims about TrueEvery *)

\* the calls on which a fresh TrueEvery(count, initial_count) is to fire
FiresAt(n, count, initial_count) ==
    \/ n = 1
    \/ n > initial_count /\ (n - 1 - initial_count) % count = 0

\* C1: a fresh TrueEvery with count > 0, initial_count >= 1, start_value 0 and
\* once = False returns True on call 1, on call 1 + initial_count and on every
\* count-th call after that, and a non-true value on every other call.
C1_FreshSchedule ==
    ( /\ te_pristine
      /\ te_n >= 1
      /\ te.start_value = 0
      /\ ~te.once
      /\ te.count > 0
      /\ te.initial_count >= 1 )
    => ((te_ret = "True") <=> FiresAt(te_n, te.count, te.initial_count))

\* a fresh TrueEvery(3, initial_count = 2) fires on its 6th call (1 + 2 + 3)
C1_Witness ==
    /\ te_pristine
    /\ te.start_value = 0
    /\ ~te.once
    /\ te.count = 3
    /\ te.initial_count = 2
    /\ te_n = 6
    /\ te_ret = "True"

\* C2, as claimed: a TrueEvery with once = True returns True at most once in
\* its lifetime, whatever operations (resets included) are invoked on it.
C2_OnceInLifetime == te.once => te_trues <= 1

\* C2, amended: a TrueEvery with once = True returns True at most once between
\* two resets, and every call after that one and before the next reset
\* returns False.
C2_OncePerReset ==
    te.once =>
        /\ te_epoch <= 1
        /\ (te_epoch = 1 /\ te_op \in {"call", "run"} /\ te_ret # "True")
               => te_ret = "False"

\* a once-instance that fired, was reset, fired again and then returned False
C2_Witness ==
    /\ te.once
    /\ te_trues = 2
    /\ te_epoch = 1
    /\ te_op = "call"
    /\ te_ret = "False"

\* C3: after reset() without argument, every following call returns what the
\* same call returns on a freshly constructed instance of the same configuration.
C3_ResetIsFresh ==
    (fresh # None /\ te_n >= 1) => te_ret = fresh_ret

\* a once-instance that had fired before the reset() fires again, as a fresh one does
C3_Witness ==
    /\ fresh # None
    /\ te.once
    /\ te_trues = 2
    /\ te_n >= 2
    /\ te_op = "call"
    /\ te_ret = "True"
    /\ fresh_ret = "True"

---------------------------------------------------------------------------
(* Claims about Animation *)

RECURSIVE SumDurations(_)
\* d_0 + ... + d_(n-1)
SumDurations(frames) ==
    IF frames = <<>> THEN 0 ELSE frames[1][2] + SumDurations(Tail(frames))

AllPositive(frames) == \A i \in DOMAIN frames : frames[i][2] > 0

Min(x, y) == IF x <= y THEN x ELSE y

\* an animation constructed with r >= 1 repetitions and positive durations,
\* on which only update() and get_surface() were called since
CountedRun ==
    /\ an # None
    /\ an_pristine
    /\ an_reps # None
    /\ an_reps[1] >= 1
    /\ AllPositive(an[1].frames)

C5_FinishedTerminal ==
    [][ (an # None /\ an[1].finished) =>
            /\ an' # None
            /\ an'[1].finished
            /\ an_op' = "update" =>
                   /\ an'[1].frame_index = an[1].frame_index
                   /\ an'[1].frames_until_next = an[1].frames_until_next
                   /\ an'[1].repititions = an[1].repititions ]_vars

\* an update() was made on an animation that had finished its one repetition
C5_Witness ==
    /\ an # None
    /\ an_pristine
    /\ an_reps = Some(1)
    /\ an[1].finished
    /\ an_op = "update"
    /\ an_updates > SumDurations(an[1].frames)
    /\ an[1].frames_until_next > 0

\* C6: an __init__ or load given a number of files that differs from the
\* number of durations raises ValueError; the constructor yields no object,
\* and load() on a constructed object leaves the object as it was.
C6_MismatchRaises ==
    [][ (an_mismatch' /\ an_op' \in {"init", "load"}) =>
            /\ an_err' = "ValueError"
            /\ an' = an
            /\ an_op' = "init" => an' = None ]_vars

\* load() raised on an animation that was in its second frame, and it still is
C6_Witness ==
    /\ an # None
    /\ an_op = "load"
    /\ an_mismatch
    /\ an_err = "ValueError"
    /\ an[1].frame_index = 1

\* C10: on a successfully loaded Animation 0 <= frame_index < frame_count =
\* len(frames) holds whatever update() and reset() calls were made, so
\* get_surface() has a frame to return.
C10_FrameIndexInRange ==
    (an # None /\ an_loaded) =>
        /\ 0 <= an[1].frame_index
        /\ an[1].frame_index < an[1].frame_count
        /\ an[1].frame_count = Len(an[1].frames)
        /\ Animation_get_surface(an[1]).err = "none"

\* get_surface() returned the last of two frames
C10_Witness ==
    /\ an # None
    /\ an_loaded
    /\ an[1].frame_count = 2
    /\ an[1].frame_index = 1
    /\ an_op = "get_surface"
    /\ an_surf = 2

---------------------------------------------------------------------------
(* Claims about Button *)

\* C7: clicked is true right after every activation and false right after
\* every draw(), and a draw() fills with the clicked colour attribute exactly
\* when the button was activated since the draw() before it.
C7_ClickedPulse ==
    [][ /\ bt_op' = "call" => bt'.clicked
        /\ bt_op' = "draw" =>
               /\ ~bt'.clicked
               /\ bt_fill'.attr = "clicked_color" <=> bt_acts > 0 ]_vars

\* a draw() after two activations chose the clicked colour and cleared the flag
C7_Witness ==
    /\ bt_op = "draw"
    /\ bt_fill.attr = "clicked_color"
    /\ bt_fill.color = bt.clicked_color
    /\ ~bt.clicked
    /\ bt_ran = 2

---------------------------------------------------------------------------
(* Claims about MenuScreen *)

NButtons == Len(mn.buttons)

\* C8: with n >= 1 buttons and the active index i in 0..n-1, K_DOWN and
\* K_RIGHT set button_index to (i+1) mod n, K_UP and K_LEFT to (i-1) mod n.
C8_ArrowKeysWrap ==
    (mn_ev.kind = "KEYDOWN" /\ NButtons >= 1 /\ mn_prev \in 0..(NButtons - 1)) =>
        /\ mn_ev.key \in {"K_DOWN", "K_RIGHT"} =>
               mn.button_index = (mn_prev + 1) % NButtons
        /\ mn_ev.key \in {"K_UP", "K_LEFT"} =>
               mn.button_index = (mn_prev + NButtons - 1) % NButtons

\* three buttons: K_UP at index 0 gave index 2
C8_Witness ==
    /\ NButtons = 3
    /\ mn_ev.kind = "KEYDOWN"
    /\ mn_ev.key = "K_UP"
    /\ mn_prev = 0
    /\ mn.button_index = 2

\* the buttons (1-based) whose rect holds the position the last handler hit-tested
Colliding ==
    IF mn_pos = None THEN {}
    ELSE {i \in 1..NButtons : collidepoint(mn.buttons[i].rect, mn_pos[1])}

\* a primary-button press that returned, at a position inside some button
HitPress ==
    /\ mn_ev.kind = "MOUSEBUTTONDOWN"
    /\ mn_ev.button = 1
    /\ mn_err = "none"
    /\ Colliding # {}

\* C9, as claimed: on a primary-button press at a position inside one or more
\* buttons, button_index is the first colliding button, that button was
\* activated exactly once and no other button was activated.
C9_FirstCollidingWins ==
    HitPress =>
        LET first == CHOOSE i \in Colliding : \A j \in Colliding : i <= j IN
        /\ mn.button_index = first - 1
        /\ mn_acts[first] = 1
        /\ \A j \in 1..NButtons : j # first => mn_acts[j] = 0

---------------------------------------------------------------------------
(* C11: run_or_reset is __call__ on a true argument, reset() + False on a false one *)

\* C11: run_or_reset(True) returns what __call__() returns and leaves the
\* instance as __call__() leaves it; run_or_reset(False) returns False and
\* leaves the instance as reset() leaves it: calls back at the constructor's
\* start_value, first_call true, so that the calls that follow fire as those
\* of a freshly constructed instance do.
C11_RunOrReset ==
    [][ /\ te_op' = "run" =>
            /\ te' = TrueEvery_call(te).obj
            /\ te_ret' = TrueEvery_call(te).ret
        /\ te_op' = "run_reset" =>
            /\ te_ret' = "False"
            /\ te' = TrueEvery_reset(te, None)
            /\ te'.calls = te.start_value
            /\ te'.first_call
            /\ te_n' = 0
        /\ (te_op = "run_reset" /\ te_op' \in {"call", "run"} /\ fresh # None) =>
            /\ te_ret' = fresh_ret'
            /\ te'.calls = fresh'[1].calls ]_vars

\* a false argument arrives after the instance has fired and counted on
C11_Witness ==
    /\ te_op = "run_reset"
    /\ te_ret = "False"
    /\ te_trues = 1
    /\ te.start_value = 2
    /\ te.calls = 2
    /\ te.first_call
    /\ te.count = 3

---------------------------------------------------------------------------
(* C17: a TrueEvery with count <= 0 *)

\* C17 as stated: on an instance constructed with count <= 0 every __call__,
\* from the first one on, returns True.
C17_NonPositiveCountAlwaysTrue ==
    (te.count <= 0 /\ te_op \in {"call", "run"}) => te_ret = "True"

\* C17 amended: on an instance constructed with count <= 0, once = False,
\* start_value <= 1 and initial_count omitted or <= 1, every __call__ of an
\* unbroken run of calls since construction returns True.
C17_NonPositiveCountFiresEveryCall ==
    ( /\ te.count <= 0
      /\ ~te.once
      /\ te.start_value <= 1
      /\ te.initial_count <= 1
      /\ te_pristine
      /\ te_op \in {"call", "run"} ) => (te_ret = "True" /\ te_trues = Min(te_n, 2))

\* a count of -1 after a good number of calls, each of which fired
C17_Witness ==
    /\ te.count = -1
    /\ te.initial_count = -1
    /\ ~te.once
    /\ te.start_value = 1
    /\ te_pristine
    /\ te_op = "call"
    /\ te_n = 4
    /\ te_ret = "True"

---------------------------------------------------------------------------
(* C13: how long a frame is held *)

\* C13: on an Animation that is not finished, whatever integer durations load
\* accepted, frame i is current for exactly frame_data[i] consecutive update()
\* calls: the update() that completes that number advances to frame
\* (i + 1) mod frame_count, no earlier update() advances, and no frame is held
\* longer.  The count starts at construction, reset() and load().
C13_FrameHeldForItsDuration ==
    [][ (an_op' = "update" /\ an # None /\ an_loaded /\ ~an[1].finished) =>
          LET a == an[1]
              duration == a.frames[a.frame_index + 1][2]
          IN  /\ an_held + 1 <= duration
              /\ an'[1].frame_index = IF an_held + 1 = duration
                                      THEN (a.frame_index + 1) % a.frame_count
                                      ELSE a.frame_index
              /\ an_held' = IF an_held + 1 = duration THEN 0 ELSE an_held + 1 ]_vars

---------------------------------------------------------------------------
(* C18: what reset() restores and what it leaves *)

\* C18: on a loaded Animation, in whatever state, reset() sets frame_index to 0
\* and frames_until_next to the duration of frame 0 and changes neither
\* finished nor the repetition count (nor the frames); so a finished animation
\* is still finished after reset(), and an update() after it changes nothing.
C18_ResetRestartsOnly ==
    [][ /\ (an_op' = "reset" /\ an # None /\ an_loaded) =>
            /\ an_err' = "none"
            /\ an'[1].frame_index = 0
            /\ an'[1].frames_until_next = an[1].frames[1][2]
            /\ an'[1].finished = an[1].finished
            /\ an'[1].repititions = an[1].repititions
            /\ an'[1].frames = an[1].frames
            /\ an'[1].frame_count = an[1].frame_count
        /\ (an_op = "reset" /\ an_op' = "update" /\ an_loaded /\ an[1].finished) =>
            an' = an ]_vars

\* reset() on an animation that counts its repetitions and is not at its start
C18_Witness ==
    /\ an # None
    /\ an_op = "reset"
    /\ an_err = "none"
    /\ an[1].repititions = Some(1)
    /\ an[1].frames = <<<<1, 2>>, <<2, 1>>>>
    /\ an[1].frame_index = 0
    /\ an[1].frames_until_next = 2
    /\ ~an[1].finished

---------------------------------------------------------------------------
(* C19: finished and the repetition count *)

C20_ButtonIndexInRange ==
    /\ NButtons >= 1
    /\ 0 <= mn.button_index /\ mn.button_index < NButtons
    /\ (mn_ev.kind = "KEYDOWN" /\ mn_ev.key \in {"K_RETURN", "K_SPACE"}) =>
          /\ mn_err = "none"
          /\ mn.button_index = mn_prev
          /\ mn_acts = [i \in 1..NButtons |-> IF i = mn_prev + 1 THEN 1 ELSE 0]
          /\ mn.buttons[mn_prev + 1].clicked

\* three buttons: K_SPACE with the last one active
C20_Witness ==
    /\ NButtons = 3
    /\ mn_ev.kind = "KEYDOWN"
    /\ mn_ev.key = "K_SPACE"
    /\ mn_prev = 2
    /\ mn.button_index = 2
    /\ mn_acts = <<0, 0, 1>>
    /\ ~mn.buttons[1].clicked

---------------------------------------------------------------------------
(* Claims about the fill of Button and ToggleButton *)

\* the attribute the priority "explicit override > highlight flag > base" picks
ByPriority(override_highlight, highlight, highlight_attr, base_attr) ==
    IF override_highlight # None
    THEN IF override_highlight[1] THEN highlight_attr ELSE base_attr
    ELSE IF highlight THEN highlight_attr ELSE base_attr

\* C14: draw(target, override_highlight) fills a Button with the clicked colour
\* when clicked is true; otherwise with the highlight colour or the base colour
\* as override_highlight says when it is given (True or False), whatever the
\* highlight flag, and as the highlight flag says when it is not given.  A
\* ToggleButton is filled by the same rule without the clicked case, from the
\* on colours when toggled and from the off colours when not.
C14_FillPriority ==
    [][ /\ (bt_op' = "draw" /\ btVars' # btVars) =>
            /\ bt_fill'.attr =
                  IF bt.clicked THEN "clicked_color"
                  ELSE ByPriority(bt_arg', bt.highlight, "highlight_color", "rect_color")
            /\ bt_fill'.color = bt[bt_fill'.attr]
        /\ (tb_op' = "draw" /\ tbVars' # tbVars) =>
            /\ tb_fill'.attr =
                  IF tb[1].toggled
                  THEN ByPriority(tb_arg', tb[1].highlight,
                                  "on_highlight_color", "on_rect_color")
                  ELSE ByPriority(tb_arg', tb[1].highlight,
                                  "off_highlight_color", "off_rect_color")
            /\ tb_fill'.color = tb[1][tb_fill'.attr] ]_vars

\* a highlighted Button drawn with override_highlight = False got its base colour
C14_Witness ==
    /\ tb = None
    /\ bt_op = "draw"
    /\ bt_arg = Some(FALSE)
    /\ bt.highlight
    /\ bt_ran = 1
    /\ bt_fill.attr = "rect_color"
    /\ bt_fill.color = "white"
    /\ bt.highlight_color = "grey"

\* C15: an activation of a ToggleButton invokes the action, if there is one,
\* under the old value of toggled, then flips toggled; draw() leaves toggled
\* alone.  So after k activations and any draws toggled is the constructor's
\* value when k is even and its negation when k is odd.
C15_ToggleParity ==
    tb # None =>
        /\ tb[1].toggled = IF tb_k % 2 = 0 THEN tb_first ELSE ~tb_first
        /\ (tb_op = "call" /\ tb[1].action) => tb_seen = Some(~tb[1].toggled)
        /\ (tb_op = "call" /\ ~tb[1].action) => tb_seen = None

\* three activations and a draw: toggled is the negation of its first value
C15_Witness ==
    /\ tb # None
    /\ tb[1].action
    /\ tb_k = 3
    /\ tb_op = "draw"
    /\ tb_first
    /\ ~tb[1].toggled
    /\ tb_seen = Some(TRUE)
    /\ tb_fill.attr = "off_rect_color"

---------------------------------------------------------------------------
(* C16: the logical position of the pointer *)

\* C16: whatever real and logical sizes the window was constructed with, the
\* logical one larger than the real one included, a primary-button press on a
\* scaled MenuScreen returns, having hit-tested the position
\* (x // scale_x, y // scale_y) of the pointer at (x, y), where scale is
\* real size // logical size on each axis.
C16_ScaledPosition ==
    (mn_ev.kind = "MOUSEBUTTONDOWN" /\ mn_ev.button = 1 /\ mn.screen.window_scaled) =>
        LET g == mn.screen
            scale == g.window_scale
            p == mn_ev.pos[1]
        IN  /\ mn_err = "none"
            /\ mn_pos # None
            /\ scale[1] > 0 /\ scale[2] > 0
            /\ scale[1] = g.real_window_size[1] \div g.window_size[1]
            /\ scale[2] = g.real_window_size[2] \div g.window_size[2]
            /\ mn_pos[1] = Point(p[1] \div scale[1], p[2] \div scale[2])

---------------------------------------------------------------------------
(* C12: the order of the steps of run() *)

\* the hook an event of a type is to reach ("none": there is none for it)
HookByType(type) ==
    IF type = "KEYDOWN" THEN "key_down"
    ELSE IF type = "KEYUP" THEN "key_up"
    ELSE IF type = "MOUSEBUTTONDOWN" THEN "mouse_button_down"
    ELSE IF type = "MOUSEBUTTONUP" THEN "mouse_button_up"
    ELSE "none"

HasQuit(events) == \E i \in DOMAIN events : events[i] = "QUIT"

RECURSIVE Dispatched(_)
\* the hooks the events reach, in the order of the events, up to the exit at
\* the first quit event
Dispatched(events) ==
    IF events = <<>> THEN <<>>
    ELSE IF Head(events) = "QUIT" THEN <<"sys.exit">>
    ELSE IF HookByType(Head(events)) = "none" THEN Dispatched(Tail(events))
    ELSE <<HookByType(Head(events))>> \o Dispatched(Tail(events))

\* everything one iteration is to do with the events pending at its start
Iteration(events, scaled) ==
    IF HasQuit(events) THEN Dispatched(events)
    ELSE Dispatched(events) \o <<"update">>
            \o (IF scaled THEN <<"scale">> ELSE <<>>) \o <<"present", "tick">>

IsPrefix(s, t) == Len(s) <= Len(t) /\ SubSeq(t, 1, Len(s)) = s

\* C12: in every iteration of run() the events pending at its start reach the
\* hooks of their types in queue order, then update() runs once, then the
\* frame is presented, then the clock and game_ticks advance, in this order
\* and nothing else; a quit event ends the process where it is dispatched,
\* with no later event dispatched and no update, present or tick after it.
C12_IterationOrder ==
    gs_pc # "idle" =>
        LET whole == Iteration(gs_batch, gs.window_scaled) IN
        /\ IsPrefix(gs_log, whole)
        /\ gs_pc = "exited" => (gs_log = whole /\ HasQuit(gs_batch))
        /\ (gs_pc = "loop" /\ gs_iters > 0) => (gs_log = whole /\ ~HasQuit(gs_batch))
        /\ (gs_pc \in {"present", "tick"}) => ~HasQuit(gs_batch)
        /\ gs.game_ticks = IF gs_pc = "loop" THEN gs_iters ELSE gs_iters - 1

\* the second iteration met a quit event between two key events
C12_Witness ==
    /\ gs_pc = "exited"
    /\ gs_batch = <<"KEYDOWN", "QUIT", "KEYUP">>
    /\ gs_queue = <<"KEYUP">>
    /\ gs_log = <<"key_down", "sys.exit">>
    /\ gs_iters = 2
    /\ gs.game_ticks = 1
    /\ gs.window_scaled

===========================================================================
